---- MODULE Spec2Model ----
(***************************************************************************)
(* eyes.storybook: the command line script (bin script, src/unnamed/       *)
(* part_001) and the EyesStorybook session wrapper                         *)
(* (src/lib/EyesStorybook.js).                                             *)
(*                                                                         *)
(* Spec        : one run of the command line script, from the parsed argv  *)
(*               to process.exit.                                          *)
(* SessionSpec : one EyesStorybook instance driven through its public      *)
(*               methods.                                                  *)
(***************************************************************************)
EXTENDS Naturals, Integers, Sequences, FiniteSets

(* ------------------------------ bounds -------------------------------- *)
MaxStories == 2
MaxConcurrency == 2
MaxChecks == 3
MaxCloses == 2

(* ------------------------- program constants -------------------------- *)
EYES_TEST_FAILED_EXIT_CODE == 130
FATAL_EXIT_CODE == 1

\* JavaScript's undefined, for fields that otherwise hold a number
Undefined == 0 - 1

VARIABLES
    \* ---- command line script ----
    pc,            \* position of the script
    yargs,         \* parsed argv
    configs,       \* the configuration object, patched in place
    error,         \* the error thrown / the rejection reason, "none" if none
    stories,       \* number of stories discovery returned (stories 1..stories)
    runner,        \* which runner class was constructed, "none" if none
    testStoriesCalls, \* how many times runner.testStories was called
    pending,       \* runner: stories not yet started
    inFlight,      \* runner: stories being processed
    collected,     \* runner: TestResults gathered so far
    results,       \* the array the runner's promise resolved with
    printed,       \* per-story lines written by the result handler
    footer,        \* the line that follows the per-story lines
    exitCode,      \* the process exit code, Undefined while running
    \* ---- EyesStorybook instance ----
    _title,
    _screenshot,
    _screenshotUrl,
    _viewportSize, \* the value held by _viewportSizeHandler
    openState,     \* "idle", or "opening" while openBase is pending
    openArg,       \* the viewportSize argument of the pending open
    checkImageCalls, \* number of checkImage calls made
    checkUrlCalls, \* number of checkUrl calls made
    matchRequests, \* number of checkSingleWindowBase requests issued
    inCheck,       \* check promises not yet settled
    lastCheck,     \* the arguments of the most recent check call
    lastOutcome,   \* how the most recently settled check promise ended
    closeCalls,    \* number of close calls made
    closeRejected, \* TRUE once a close call threw or its promise rejected
    sizeQuery      \* the most recent getViewportSize call: what the session
                   \* held when it was made and what it resolved with

cliVars == <<pc, yargs, configs, error, stories, runner, testStoriesCalls,
             pending, inFlight, collected, results, printed, footer, exitCode>>
eyesVars == <<_title, _screenshot, _screenshotUrl, _viewportSize, openState,
              openArg, checkImageCalls, checkUrlCalls, matchRequests, inCheck,
              lastCheck, lastOutcome, closeCalls, closeRejected, sizeQuery>>

VARIABLES
    \* ---- concurrently processed stories, each with its EyesStorybook ----
    sessions,      \* per instance: its _title, _screenshot, _screenshotUrl
    tasks,         \* per story: its check call and what the check has read
    \* ---- the same results arriving in another order ----
    arrival,       \* the results, reordered
    reordered      \* what the result handler produces for `arrival`

poolVars == <<sessions, tasks>>
orderVars == <<arrival, reordered>>
vars == <<cliVars, eyesVars, poolVars, orderVars>>

(***************************************************************************)
(*                      The command line script                            *)
(***************************************************************************)

\* argv as yargs parses it: the declared options local and build, and the
\* undeclared --browser, which yargs parses into yargs.browser all the same.
\* (verbose and debug only select log handlers.)
Yargs == [local : BOOLEAN, browser : BOOLEAN, build : BOOLEAN]

\* The configuration object after Object.assign(defaultConfig, userConfig).
Configs ==
    [apiKey : BOOLEAN,
     maxConcurrency : {Undefined} \cup (0 .. MaxConcurrency),
     useVisualGrid : BOOLEAN,
     skipStorybookBuild : BOOLEAN,
     storybookApp : {"undefined", "react", "other"},
     storybookVersion : {Undefined, 3, 4},
     viewportSize : {"undefined", "object", "array", "invalid"}]

\* `let configs;` before the configuration is loaded
NoConfigs ==
    [apiKey |-> FALSE, maxConcurrency |-> Undefined, useVisualGrid |-> FALSE,
     skipStorybookBuild |-> FALSE, storybookApp |-> "undefined",
     storybookVersion |-> Undefined, viewportSize |-> "undefined"]

SUPPORTED_STORYBOOK3_APPS == {"react", "vue", "react-native", "angular", "polymer"}

\* A TestResults object as the comparison backend returns it: every getter
\* reads its own field. A count is 0 (none) or 1 (some); a session is one
\* single-window match, hence one step. The backend reports differences only
\* for a test that has a baseline and did not pass.
TestResult ==
    {r \in [isNew : BOOLEAN, isPassed : BOOLEAN,
            mismatches : {0, 1}, missing : {0, 1}, steps : {1}] :
        (r.isNew \/ r.isPassed) => (r.mismatches = 0 /\ r.missing = 0)}

\* A synchronous throw at the top level of the script: nothing catches it and
\* node ends the process with exit code 1.
Throw(e) ==
    /\ error' = e
    /\ exitCode' = FATAL_EXIT_CODE
    /\ pc' = "exited"

\* A rejection in the promise chain: the .then(results) handler is skipped and
\* the .catch handler runs next.
Reject(e) ==
    /\ error' = e
    /\ pc' = "rejected"

LoadConfiguration ==
    /\ pc = "load"
    /\ \E file \in {"found", "absentDefault", "absentCustom"}, c \in Configs :
         IF file = "absentCustom"
         THEN /\ Throw("ConfigurationFileNotFound")
              /\ UNCHANGED configs
         ELSE /\ configs' = c
              /\ pc' = "validate"
              /\ UNCHANGED <<error, exitCode>>
    /\ UNCHANGED <<yargs, stories, runner, testStoriesCalls, pending, inFlight,
                   collected, results, printed, footer>>
    /\ UNCHANGED <<eyesVars, poolVars, orderVars>>

\* if (yargs.browser) configs.useVisualGrid = false;
ForceBrowserMode(y, c) ==
    IF y.browser THEN [c EXCEPT !.useVisualGrid = FALSE] ELSE c

\* if (yargs.build) configs.skipStorybookBuild = false;
EnableBuild(y, c) ==
    IF y.build THEN [c EXCEPT !.skipStorybookBuild = FALSE] ELSE c

\* variant: the test without its `!== 0` exemption
MaxConcurrencyMissing_RejectsZero(n) == n = Undefined \/ n = 0

\* !configs.maxConcurrency && configs.maxConcurrency !== 0
MaxConcurrencyMissing(n) == (n = Undefined \/ n = 0) /\ n # 0

\* The first validation of the script that throws, "none" if all pass.
ValidationError(c) ==
    IF ~c.apiKey THEN "ApiKeyMissing"
    ELSE IF MaxConcurrencyMissing(c.maxConcurrency) THEN "MaxConcurrencyUndefined"
    ELSE IF c.storybookApp # "undefined" /\ c.storybookApp \notin SUPPORTED_STORYBOOK3_APPS
         THEN "StorybookAppUnsupported"
    ELSE IF c.storybookVersion # Undefined /\ c.storybookVersion \notin {2, 3}
         THEN "StorybookVersionUnsupported"
    ELSE IF c.viewportSize = "invalid" THEN "ViewportSizeInvalid"
    ELSE "none"

\* if (!Array.isArray(configs.viewportSize)) configs.viewportSize = [configs.viewportSize];
WrapViewportSize(c) ==
    IF c.viewportSize = "object" THEN [c EXCEPT !.viewportSize = "array"] ELSE c

ValidateConfiguration ==
    /\ pc = "validate"
    /\ LET patched == EnableBuild(yargs, ForceBrowserMode(yargs, configs))
           e == ValidationError(patched)
       IN  IF e # "none"
           THEN /\ Throw(e)
                /\ configs' = patched
           ELSE /\ configs' = WrapViewportSize(patched)
                /\ pc' = "package"
                /\ UNCHANGED <<error, exitCode>>
    /\ UNCHANGED <<yargs, stories, runner, testStoriesCalls, pending, inFlight,
                   collected, results, printed, footer>>
    /\ UNCHANGED <<eyesVars, poolVars, orderVars>>

ParsePackageJson ==
    /\ pc = "package"
    /\ \E exists \in BOOLEAN :
         IF ~exists
         THEN /\ Throw("PackageJsonNotFound")
              /\ UNCHANGED configs
         ELSE /\ configs' =
                   [configs EXCEPT
                      !.storybookApp = IF @ = "undefined" THEN "react" ELSE @,
                      !.storybookVersion = IF @ = Undefined THEN 3 ELSE @]
              /\ pc' = "main"
              /\ UNCHANGED <<error, exitCode>>
    /\ UNCHANGED <<yargs, stories, runner, testStoriesCalls, pending, inFlight,
                   collected, results, printed, footer>>
    /\ UNCHANGED <<eyesVars, poolVars, orderVars>>

\* buildStorybook (remote) or startServer (local): resolves or rejects.
PrepareStorybook ==
    /\ pc = "main"
    /\ \E ok \in BOOLEAN :
         IF ok
         THEN pc' = "discover" /\ UNCHANGED error
         ELSE Reject(IF configs.useVisualGrid THEN "BuildStorybookFailed"
                                              ELSE "StartServerFailed")
    /\ UNCHANGED <<yargs, configs, stories, runner, testStoriesCalls, pending,
                   inFlight, collected, results, printed, footer, exitCode>>
    /\ UNCHANGED <<eyesVars, poolVars, orderVars>>

\* getStoriesFromStatic (remote) or getStoriesFromWeb (local).
GetStories ==
    /\ pc = "discover"
    /\ \E ok \in BOOLEAN, n \in 0 .. MaxStories :
         IF ok
         THEN pc' = "stories" /\ stories' = n /\ UNCHANGED error
         ELSE Reject("StoryDiscoveryFailed") /\ UNCHANGED stories
    /\ UNCHANGED <<yargs, configs, runner, testStoriesCalls, pending,
                   inFlight, collected, results, printed, footer, exitCode>>
    /\ UNCHANGED <<eyesVars, poolVars, orderVars>>

\* const runner = new EyesRenderingRunner(...) / new EyesWebDriverRunner(...)
RunnerFor(c) ==
    IF c.useVisualGrid THEN "EyesRenderingRunner" ELSE "EyesWebDriverRunner"

\* The stories, in discovery order.
StoryQueue(n) == [i \in 1 .. n |-> i]

\* runner.testStories(stories), up to its first suspension point: a limit of 0
\* is a configuration error, a failed rendering-info handshake (remote mode) is
\* fatal, otherwise every story is queued.
TestStoriesBegin(c, n) ==
    \E handshake \in BOOLEAN :
        IF c.maxConcurrency = 0
        THEN Reject("ConcurrencyLimitZero") /\ UNCHANGED <<pending, inFlight>>
        ELSE IF c.useVisualGrid /\ ~handshake
        THEN Reject("RenderingInfoHandshakeFailed") /\ UNCHANGED <<pending, inFlight>>
        ELSE /\ pending' = StoryQueue(n)
             /\ inFlight' = {}
             /\ pc' = "running"
             /\ UNCHANGED error

\* .then(stories => { const runner = new ...Runner(...); return runner.testStories(stories); })
RunStories ==
    /\ pc = "stories"
    /\ runner' = RunnerFor(configs)
    /\ testStoriesCalls' = testStoriesCalls + 1
    /\ TestStoriesBegin(configs, stories)
    /\ UNCHANGED <<yargs, configs, stories, collected, results, printed, footer,
                   exitCode>>
    /\ UNCHANGED <<eyesVars, poolVars, orderVars>>

\* The dispatcher starts the next pending story when fewer than N are in flight.
StartTask ==
    /\ pc = "running"
    /\ pending # <<>>
    /\ Cardinality(inFlight) < configs.maxConcurrency
    /\ inFlight' = inFlight \cup {Head(pending)}
    /\ pending' = Tail(pending)
    /\ UNCHANGED <<pc, yargs, configs, error, stories, runner, testStoriesCalls,
                   collected, results, printed, footer, exitCode>>
    /\ UNCHANGED <<eyesVars, poolVars, orderVars>>

\* An error inside one story's task becomes a failed TestResult (treated as a
\* mismatch).
FailedResult ==
    [isNew |-> FALSE, isPassed |-> FALSE, mismatches |-> 1, missing |-> 0, steps |-> 1]

\* One story's task completes: with the backend's TestResults, or with an
\* error caught at the task boundary.
FinishTask ==
    /\ pc = "running"
    /\ \E s \in inFlight, r \in TestResult \cup {FailedResult} :
         /\ inFlight' = inFlight \ {s}
         /\ collected' = Append(collected, [story |-> s, result |-> r])
    /\ UNCHANGED <<pc, yargs, configs, error, stories, runner, testStoriesCalls,
                   pending, results, printed, footer, exitCode>>
    /\ UNCHANGED <<eyesVars, poolVars, orderVars>>

\* A failure in setup common to all tasks aborts the run: the promise of
\* testStories rejects and what was gathered is discarded.
AbortRun ==
    /\ pc = "running"
    /\ Reject("FatalSetupError")
    /\ pending' = <<>>
    /\ inFlight' = {}
    /\ collected' = <<>>
    /\ UNCHANGED <<yargs, configs, stories, runner, testStoriesCalls, results,
                   printed, footer, exitCode>>
    /\ UNCHANGED <<eyesVars, poolVars, orderVars>>

\* Every story has its result: the promise of testStories resolves with them.
ResolveTestStories ==
    /\ pc = "running"
    /\ pending = <<>>
    /\ inFlight = {}
    /\ results' = [i \in 1 .. Len(collected) |-> collected[i].result]
    /\ pc' = "display"
    /\ UNCHANGED <<yargs, configs, error, stories, runner, testStoriesCalls,
                   pending, inFlight, collected, printed, footer, exitCode>>
    /\ UNCHANGED <<eyesVars, poolVars, orderVars>>

\* variant: a result counts as failed whenever it is not passed
IsFailed_IgnoresNew(r) == ~r.isPassed

\* The else branch of the result loop: neither getIsNew() nor isPassed().
IsFailed(r) == ~r.isNew /\ ~r.isPassed

\* The line the result loop prints for one result.
Label(r) ==
    IF r.isNew THEN [label |-> "New", failed |-> 0, steps |-> 0]
    ELSE IF r.isPassed THEN [label |-> "Passed", failed |-> 0, steps |-> 0]
    ELSE [label |-> "Failed", failed |-> r.mismatches + r.missing, steps |-> r.steps]

\* variant: the loop starts one result late
PrintLines_SkipsFirst(rs) == [i \in 1 .. Len(rs) - 1 |-> Label(rs[i + 1])]

\* results.forEach(result => console.log(...))
PrintLines(rs) == [i \in 1 .. Len(rs) |-> Label(rs[i])]

\* variant: every result overwrites the exit code
RECURSIVE ExitCodeAfter_LastWins(_, _)
ExitCodeAfter_LastWins(code, rs) ==
    IF rs = <<>> THEN code
    ELSE ExitCodeAfter_LastWins(
             IF IsFailed(Head(rs)) THEN EYES_TEST_FAILED_EXIT_CODE ELSE 0,
             Tail(rs))

\* let exitCode = 0; results.forEach(... if (exitCode < 130) exitCode = 130 ...)
RECURSIVE ExitCodeAfter(_, _)
ExitCodeAfter(code, rs) ==
    IF rs = <<>> THEN code
    ELSE ExitCodeAfter(
             IF IsFailed(Head(rs)) /\ code < EYES_TEST_FAILED_EXIT_CODE
             THEN EYES_TEST_FAILED_EXIT_CODE ELSE code,
             Tail(rs))

\* .then(results => { ...; process.exit(exitCode); })
DisplayResults ==
    /\ pc = "display"
    /\ printed' = PrintLines(results)
    /\ footer' = IF Len(results) > 0 THEN "SeeDetailsAt" ELSE "NoResultsReturned"
    /\ exitCode' = ExitCodeAfter(0, results)
    /\ pc' = "exited"
    /\ UNCHANGED <<yargs, configs, error, stories, runner, testStoriesCalls,
                   pending, inFlight, collected, results>>
    /\ UNCHANGED <<eyesVars, poolVars, orderVars>>

\* variant: the catch handler ends the process with process.exit()
CatchError_ExitsZero ==
    /\ pc = "rejected"
    /\ exitCode' = 0
    /\ pc' = "exited"
    /\ UNCHANGED <<yargs, configs, error, stories, runner, testStoriesCalls,
                   pending, inFlight, collected, results, printed, footer>>
    /\ UNCHANGED <<eyesVars, poolVars, orderVars>>

\* .catch(err => { console.error(err); ...; process.exit(1); })
CatchError ==
    /\ pc = "rejected"
    /\ exitCode' = FATAL_EXIT_CODE
    /\ pc' = "exited"
    /\ UNCHANGED <<yargs, configs, error, stories, runner, testStoriesCalls,
                   pending, inFlight, collected, results, printed, footer>>
    /\ UNCHANGED <<eyesVars, poolVars, orderVars>>

CliInit ==
    /\ pc = "load"
    /\ yargs \in Yargs
    /\ configs = NoConfigs
    /\ error = "none"
    /\ stories = 0
    /\ runner = "none"
    /\ testStoriesCalls = 0
    /\ pending = <<>>
    /\ inFlight = {}
    /\ collected = <<>>
    /\ results = <<>>
    /\ printed = <<>>
    /\ footer = "none"
    /\ exitCode = Undefined

(***************************************************************************)
(*                     The EyesStorybook instance                          *)
(***************************************************************************)

Images == {"imageA", "imageB"}
ImageUrls == {"urlA", "urlB"}
Titles == {"undefined", "Button"}
Sizes == {"800x600", "1024x768"}

\* EyesSimpleScreenshot.getSize(): the dimensions of the wrapped image
ImageSize(image) == IF image = "imageA" THEN "800x600" ELSE "1280x720"

\* title || ''
TitleOrEmpty(title) == IF title = "undefined" THEN "" ELSE title

\* constructor: this._title = this._screenshot = this._screenshotUrl = undefined
EyesInit ==
    /\ _title = "undefined"
    /\ _screenshot = "undefined"
    /\ _screenshotUrl = "undefined"
    /\ _viewportSize = "undefined"
    /\ openState = "idle"
    /\ openArg = "undefined"
    /\ checkImageCalls = 0
    /\ checkUrlCalls = 0
    /\ matchRequests = 0
    /\ inCheck = 0
    /\ lastCheck = [op |-> "none", image |-> "undefined", title |-> "undefined"]
    /\ lastOutcome = "none"
    /\ closeCalls = 0
    /\ closeRejected = FALSE
    /\ sizeQuery = [declared |-> "undefined", screenshot |-> "undefined",
                    reported |-> "none"]

\* open(appName, testName, viewportSize): calls super.openBase and returns
\* its promise chained with the callback that stores the viewport size.
Open(viewportSize) ==
    /\ openState = "idle"
    /\ openState' = "opening"
    /\ openArg' = viewportSize
    /\ UNCHANGED <<_title, _screenshot, _screenshotUrl, _viewportSize,
                   checkImageCalls, checkUrlCalls, matchRequests, inCheck,
                   lastCheck, lastOutcome, closeCalls, closeRejected, sizeQuery>>
    /\ UNCHANGED <<cliVars, poolVars, orderVars>>

\* openBase settles: on success the callback runs
\* that._viewportSizeHandler.set(new RectangleSize(viewportSize)).
OpenBaseSettled(ok) ==
    /\ openState = "opening"
    /\ openState' = "idle"
    /\ openArg' = "undefined"
    /\ _viewportSize' = IF ok THEN openArg ELSE _viewportSize
    /\ UNCHANGED <<_title, _screenshot, _screenshotUrl,
                   checkImageCalls, checkUrlCalls, matchRequests, inCheck,
                   lastCheck, lastOutcome, closeCalls, closeRejected, sizeQuery>>
    /\ UNCHANGED <<cliVars, poolVars, orderVars>>

SetViewportSize(viewportSize) ==
    /\ _viewportSize' = viewportSize
    /\ UNCHANGED <<_title, _screenshot, _screenshotUrl, openState, openArg,
                   checkImageCalls, checkUrlCalls, matchRequests, inCheck,
                   lastCheck, lastOutcome, closeCalls, closeRejected, sizeQuery>>
    /\ UNCHANGED <<cliVars, poolVars, orderVars>>

\* variant: checkImage issues the match request a second time
CheckImage_Retries(screenshot, title) ==
    /\ checkImageCalls + checkUrlCalls < MaxChecks
    /\ _title' = TitleOrEmpty(title)
    /\ _screenshot' = screenshot
    /\ _screenshotUrl' = "undefined"
    /\ matchRequests' = matchRequests + 2
    /\ inCheck' = inCheck + 1
    /\ checkImageCalls' = checkImageCalls + 1
    /\ lastCheck' = [op |-> "checkImage", image |-> screenshot, title |-> title]
    /\ UNCHANGED <<_viewportSize, openState, openArg, checkUrlCalls,
                   lastOutcome, closeCalls, closeRejected, sizeQuery>>
    /\ UNCHANGED <<cliVars, poolVars, orderVars>>

\* checkImage(screenshot, title), up to the promise it returns: the fields
\* are assigned and super.checkSingleWindowBase is called once.
CheckImage(screenshot, title) ==
    /\ checkImageCalls + checkUrlCalls < MaxChecks
    /\ _title' = TitleOrEmpty(title)
    /\ _screenshot' = screenshot
    /\ _screenshotUrl' = "undefined"
    /\ matchRequests' = matchRequests + 1
    /\ inCheck' = inCheck + 1
    /\ checkImageCalls' = checkImageCalls + 1
    /\ lastCheck' = [op |-> "checkImage", image |-> screenshot, title |-> title]
    /\ UNCHANGED <<_viewportSize, openState, openArg, checkUrlCalls,
                   lastOutcome, closeCalls, closeRejected, sizeQuery>>
    /\ UNCHANGED <<cliVars, poolVars, orderVars>>

\* variant: checkUrl leaves the in-memory screenshot in place
CheckUrl_KeepsScreenshot(imageLocation, title) ==
    /\ checkImageCalls + checkUrlCalls < MaxChecks
    /\ _title' = TitleOrEmpty(title)
    /\ _screenshotUrl' = imageLocation
    /\ matchRequests' = matchRequests + 1
    /\ inCheck' = inCheck + 1
    /\ checkUrlCalls' = checkUrlCalls + 1
    /\ lastCheck' = [op |-> "checkUrl", image |-> imageLocation, title |-> title]
    /\ UNCHANGED <<_screenshot, _viewportSize, openState, openArg,
                   checkImageCalls, lastOutcome, closeCalls, closeRejected,
                   sizeQuery>>
    /\ UNCHANGED <<cliVars, poolVars, orderVars>>

\* checkUrl(imageLocation, title)
CheckUrl(imageLocation, title) ==
    /\ checkImageCalls + checkUrlCalls < MaxChecks
    /\ _title' = TitleOrEmpty(title)
    /\ _screenshot' = "undefined"
    /\ _screenshotUrl' = imageLocation
    /\ matchRequests' = matchRequests + 1
    /\ inCheck' = inCheck + 1
    /\ checkUrlCalls' = checkUrlCalls + 1
    /\ lastCheck' = [op |-> "checkUrl", image |-> imageLocation, title |-> title]
    /\ UNCHANGED <<_viewportSize, openState, openArg, checkImageCalls,
                   lastOutcome, closeCalls, closeRejected, sizeQuery>>
    /\ UNCHANGED <<cliVars, poolVars, orderVars>>

\* The promise of checkSingleWindowBase settles: the match succeeded, or the
\* request failed.
CheckSettled(ok) ==
    /\ inCheck > 0
    /\ inCheck' = inCheck - 1
    /\ lastOutcome' = IF ok THEN "resolved" ELSE "rejected"
    /\ UNCHANGED <<_title, _screenshot, _screenshotUrl, _viewportSize,
                   openState, openArg, checkImageCalls, checkUrlCalls,
                   matchRequests, lastCheck, closeCalls, closeRejected,
                   sizeQuery>>
    /\ UNCHANGED <<cliVars, poolVars, orderVars>>

\* variant: close rejects for a failed test when throwEx is set
Close_Throws(throwEx) ==
    /\ closeCalls < MaxCloses
    /\ closeCalls' = closeCalls + 1
    /\ closeRejected' = (closeRejected \/ (throwEx /\ lastOutcome = "rejected"))
    /\ UNCHANGED <<_title, _screenshot, _screenshotUrl, _viewportSize,
                   openState, openArg, checkImageCalls, checkUrlCalls,
                   matchRequests, inCheck, lastCheck, lastOutcome, sizeQuery>>
    /\ UNCHANGED <<cliVars, poolVars, orderVars>>

\* close(throwEx = true): return this.getPromiseFactory().resolve();
Close(throwEx) ==
    /\ closeCalls < MaxCloses
    /\ closeCalls' = closeCalls + 1
    /\ UNCHANGED <<_title, _screenshot, _screenshotUrl, _viewportSize,
                   openState, openArg, checkImageCalls, checkUrlCalls,
                   matchRequests, inCheck, lastCheck, lastOutcome,
                   closeRejected, sizeQuery>>
    /\ UNCHANGED <<cliVars, poolVars, orderVars>>

\* variant: a declared viewport size takes precedence over the screenshot
ViewportSizeOf_DeclaredFirst(screenshot, declared) ==
    IF declared # "undefined" THEN declared
    ELSE IF screenshot # "undefined" THEN ImageSize(screenshot) ELSE declared

\* The value getViewportSize() resolves with.
ViewportSizeOf(screenshot, declared) ==
    IF screenshot # "undefined" THEN ImageSize(screenshot) ELSE declared

GetViewportSize ==
    /\ sizeQuery' = [declared |-> _viewportSize, screenshot |-> _screenshot,
                     reported |-> ViewportSizeOf(_screenshot, _viewportSize)]
    /\ UNCHANGED <<_title, _screenshot, _screenshotUrl, _viewportSize,
                   openState, openArg, checkImageCalls, checkUrlCalls,
                   matchRequests, inCheck, lastCheck, lastOutcome,
                   closeCalls, closeRejected>>
    /\ UNCHANGED <<cliVars, poolVars, orderVars>>

(***************************************************************************)
(*        Stories processed concurrently, one EyesStorybook each           *)
(***************************************************************************)

Stories == 1 .. MaxStories

\* The instance that processes a story: a session is created for the story
\* and never shared with another task.
SessionOf(story) == story

\* constructor: the three fields of a fresh instance
NewFields ==
    [title |-> "undefined", screenshot |-> "undefined", screenshotUrl |-> "undefined"]

\* variant: checkImage leaves the title of the instance as it was
AfterCheckImage_KeepsTitle(fields, screenshot, title) ==
    [fields EXCEPT !.screenshot = screenshot, !.screenshotUrl = "undefined"]

\* checkImage: this._title = title || ''; this._screenshot = new
\* EyesSimpleScreenshot(screenshot); this._screenshotUrl = undefined;
AfterCheckImage(fields, screenshot, title) ==
    [fields EXCEPT !.title = TitleOrEmpty(title),
                   !.screenshot = screenshot,
                   !.screenshotUrl = "undefined"]

\* checkUrl: this._title = title || ''; this._screenshot = undefined;
\* this._screenshotUrl = imageLocation;
AfterCheckUrl(fields, imageLocation, title) ==
    [fields EXCEPT !.title = TitleOrEmpty(title),
                   !.screenshot = "undefined",
                   !.screenshotUrl = imageLocation]

\* getTitle / getScreenshot / getScreenshotUrl resolve with the field
GetTitle(fields) == fields.title
GetScreenshot(fields) == fields.screenshot
GetScreenshotUrl(fields) == fields.screenshotUrl

NoTask ==
    [state |-> "waiting", op |-> "none", image |-> "undefined",
     title |-> "undefined", seenTitle |-> "unread", seenScreenshot |-> "unread",
     seenScreenshotUrl |-> "unread", overtaken |-> FALSE]

PoolInit ==
    /\ sessions = [i \in Stories |-> NewFields]
    /\ tasks = [s \in Stories |-> NoTask]

\* A check in flight that has not yet read all it reports.
Reading(t) ==
    /\ t.state = "checking"
    /\ "unread" \in {t.seenTitle, t.seenScreenshot, t.seenScreenshotUrl}

\* Story s makes its check call: the fields of its instance are assigned and
\* the match request starts. Checks of other stories that are still reading
\* have been overtaken by this call.
BeginCheck(s, op, image, title) ==
    [o \in Stories |->
        IF o = s
        THEN [NoTask EXCEPT !.state = "checking", !.op = op, !.image = image,
                            !.title = title]
        ELSE IF Reading(tasks[o]) THEN [tasks[o] EXCEPT !.overtaken = TRUE]
        ELSE tasks[o]]

TaskCheckImage(s, screenshot, title) ==
    /\ tasks[s].state = "waiting"
    /\ sessions' = [sessions EXCEPT
                      ![SessionOf(s)] = AfterCheckImage(@, screenshot, title)]
    /\ tasks' = BeginCheck(s, "checkImage", screenshot, title)
    /\ UNCHANGED <<cliVars, eyesVars, orderVars>>

TaskCheckUrl(s, imageLocation, title) ==
    /\ tasks[s].state = "waiting"
    /\ sessions' = [sessions EXCEPT
                      ![SessionOf(s)] = AfterCheckUrl(@, imageLocation, title)]
    /\ tasks' = BeginCheck(s, "checkUrl", imageLocation, title)
    /\ UNCHANGED <<cliVars, eyesVars, orderVars>>

\* The check of story s reads the title it reports.
ReadTitle(s) ==
    /\ tasks[s].state = "checking"
    /\ tasks[s].seenTitle = "unread"
    /\ tasks' = [tasks EXCEPT ![s].seenTitle = GetTitle(sessions[SessionOf(s)])]
    /\ UNCHANGED <<sessions, cliVars, eyesVars, orderVars>>

\* The check of story s reads the screenshot it reports.
ReadScreenshot(s) ==
    /\ tasks[s].state = "checking"
    /\ tasks[s].seenScreenshot = "unread"
    /\ tasks' = [tasks EXCEPT
                   ![s].seenScreenshot = GetScreenshot(sessions[SessionOf(s)])]
    /\ UNCHANGED <<sessions, cliVars, eyesVars, orderVars>>

\* The check of story s reads the screenshot URL it reports.
ReadScreenshotUrl(s) ==
    /\ tasks[s].state = "checking"
    /\ tasks[s].seenScreenshotUrl = "unread"
    /\ tasks' = [tasks EXCEPT
                   ![s].seenScreenshotUrl = GetScreenshotUrl(sessions[SessionOf(s)])]
    /\ UNCHANGED <<sessions, cliVars, eyesVars, orderVars>>

\* The check of story s has reported its checkpoint and its promise settles;
\* what it read is of no further use.
TaskSettled(s) ==
    /\ tasks[s].state = "checking"
    /\ ~Reading(tasks[s])
    /\ tasks' = [tasks EXCEPT ![s] = [NoTask EXCEPT !.state = "settled"]]
    /\ UNCHANGED <<sessions, cliVars, eyesVars, orderVars>>

\* No reordered run is being compared.
OrderIdle ==
    /\ arrival = <<>>
    /\ reordered = [done |-> FALSE, printed |-> <<>>, exitCode |-> Undefined]

Init == CliInit /\ EyesInit /\ PoolInit /\ OrderIdle

Next ==
    \/ LoadConfiguration
    \/ ValidateConfiguration
    \/ ParsePackageJson
    \/ PrepareStorybook
    \/ GetStories
    \/ RunStories
    \/ StartTask
    \/ FinishTask
    \/ AbortRun
    \/ ResolveTestStories
    \/ DisplayResults
    \/ CatchError

Spec == Init /\ [][Next]_vars

\* One EyesStorybook instance and the calls its owner may make on it; the
\* script is not running.
SessionInit ==
    /\ EyesInit
    /\ CliInit
    /\ PoolInit
    /\ OrderIdle
    /\ yargs = [local |-> FALSE, browser |-> FALSE, build |-> FALSE]

SessionNext ==
    \/ \E v \in Sizes : Open(v)
    \/ \E ok \in BOOLEAN : OpenBaseSettled(ok)
    \/ \E v \in Sizes : SetViewportSize(v)
    \/ \E i \in Images, t \in Titles : CheckImage(i, t)
    \/ \E u \in ImageUrls, t \in Titles : CheckUrl(u, t)
    \/ \E ok \in BOOLEAN : CheckSettled(ok)
    \/ \E throwEx \in BOOLEAN : Close(throwEx)
    \/ GetViewportSize

SessionSpec == SessionInit /\ [][SessionNext]_vars

(***************************************************************************)
(*          The result handler on the same results in two orders           *)
(***************************************************************************)

\* The orders in which n results can arrive.
Permutations(n) ==
    {p \in [1 .. n -> 1 .. n] : \A i, j \in 1 .. n : p[i] = p[j] => i = j}

\* The list rs as it arrives in the order p.
Reorder(rs, p) == [i \in 1 .. Len(rs) |-> rs[p[i]]]

\* The lists of at most MaxStories results.
ResultLists ==
    UNION {[1 .. n -> TestResult] : n \in 0 .. MaxStories}

\* A run whose runner has just resolved with `results`, next to the same
\* results in the order `arrival`.
OrderInit ==
    /\ EyesInit
    /\ PoolInit
    /\ results \in ResultLists
    /\ \E p \in Permutations(Len(results)) : arrival = Reorder(results, p)
    /\ reordered = [done |-> FALSE, printed |-> <<>>, exitCode |-> Undefined]
    /\ pc = "display"
    /\ yargs = [local |-> FALSE, browser |-> FALSE, build |-> FALSE]
    /\ configs = [apiKey |-> TRUE, maxConcurrency |-> MaxConcurrency,
                  useVisualGrid |-> FALSE, skipStorybookBuild |-> FALSE,
                  storybookApp |-> "react", storybookVersion |-> 3,
                  viewportSize |-> "undefined"]
    /\ error = "none"
    /\ stories = Len(results)
    /\ runner = RunnerFor(configs)
    /\ testStoriesCalls = 1
    /\ pending = <<>>
    /\ inFlight = {}
    /\ collected = [i \in 1 .. Len(results) |-> [story |-> i, result |-> results[i]]]
    /\ printed = <<>>
    /\ footer = "none"
    /\ exitCode = Undefined

\* The result handler run on the reordered results: the lines it prints and
\* the exit code it ends with.
DisplayReordered ==
    /\ ~reordered.done
    /\ reordered' = [done |-> TRUE,
                     printed |-> PrintLines(arrival),
                     exitCode |-> ExitCodeAfter(0, arrival)]
    /\ UNCHANGED <<arrival, cliVars, eyesVars, poolVars>>

OrderNext ==
    \/ DisplayResults
    \/ DisplayReordered

OrderSpec == OrderInit /\ [][OrderNext]_vars

\* The stories of a run processed concurrently, each on its own instance.
StoriesNext ==
    \/ \E s \in Stories, i \in Images, t \in Titles : TaskCheckImage(s, i, t)
    \/ \E s \in Stories, u \in ImageUrls, t \in Titles : TaskCheckUrl(s, u, t)
    \/ \E s \in Stories : ReadTitle(s)
    \/ \E s \in Stories : ReadScreenshot(s)
    \/ \E s \in Stories : ReadScreenshotUrl(s)
    \/ \E s \in Stories : TaskSettled(s)

StoriesSpec == SessionInit /\ [][StoriesNext]_vars

(***************************************************************************)
(*                              Properties                                 *)
(***************************************************************************)

Exited == pc = "exited"
Fatal == error # "none"

\* C1 (as stated): when the run has ended the exit code is 1 if a fatal error
\* occurred, otherwise 130 iff some result has mismatches + missing > 0,
\* otherwise 0.
C1_ExitCodeByMismatchCount ==
    Exited =>
        exitCode =
            IF Fatal THEN 1
            ELSE IF \E i \in 1 .. Len(results) :
                        results[i].mismatches + results[i].missing > 0
                 THEN 130
                 ELSE 0

\* C1 (amended): when the run has ended the exit code is 1 if a fatal error
\* occurred, otherwise 130 iff some result is neither new nor passed (the
\* results printed as Failed), otherwise 0; a new result never raises it.
C1_ExitCodeByFailedLabel ==
    Exited =>
        exitCode =
            IF Fatal THEN 1
            ELSE IF \E i \in 1 .. Len(results) :
                        ~results[i].isNew /\ ~results[i].isPassed
                 THEN 130
                 ELSE 0

\* C1 witness: a completed run with a new result and a failed one, exit 130.
C1_Witness ==
    /\ Exited /\ ~Fatal /\ exitCode = 130
    /\ \E i \in 1 .. Len(results) : results[i].isNew /\ ~results[i].isPassed
    /\ \E i \in 1 .. Len(results) : ~results[i].isNew /\ ~results[i].isPassed

\* C2 (as stated): with a concurrency limit of 0 no runner is created,
\* testStories is never called and no TestResult is produced.
C2_ZeroLimitRejected ==
    configs.maxConcurrency = 0 =>
        /\ runner = "none"
        /\ testStoriesCalls = 0
        /\ collected = <<>>
        /\ results = <<>>

\* C2 (amended): once validation has run with an undefined concurrency limit
\* the process has ended with the fatal code, no runner was created,
\* testStories was never called and no TestResult exists; and the
\* concurrency error is raised for an undefined limit only, never for 0.
C2_UndefinedLimitRejected ==
    /\ (pc \notin {"load", "validate"} /\ configs.maxConcurrency = Undefined) =>
           /\ Exited /\ Fatal /\ exitCode = 1
           /\ runner = "none"
           /\ testStoriesCalls = 0
           /\ collected = <<>>
           /\ results = <<>>
           /\ printed = <<>>
    /\ error = "MaxConcurrencyUndefined" => configs.maxConcurrency = Undefined

\* C2 witness: the run was rejected because the limit is undefined.
C2_Witness ==
    /\ Exited /\ error = "MaxConcurrencyUndefined"
    /\ configs.apiKey /\ configs.maxConcurrency = Undefined

\* C3: a run that ends without a fatal error produced exactly one TestResult
\* and printed exactly one line per input story, each story reported once.
C3_OneResultPerStory ==
    (Exited /\ ~Fatal) =>
        /\ configs.maxConcurrency >= 1
        /\ Len(collected) = stories
        /\ {collected[i].story : i \in 1 .. Len(collected)} = 1 .. stories
        /\ Len(results) = stories
        /\ Len(printed) = stories

\* C3 witness: a completed run of several stories, run concurrently, one of
\* which errored.
C3_Witness ==
    /\ Exited /\ ~Fatal
    /\ stories >= 2 /\ configs.maxConcurrency >= 2
    /\ \E i \in 1 .. Len(results) : results[i] = FailedResult
    /\ \E i \in 1 .. Len(results) : results[i].isPassed

\* C4: a run ends with the fatal code exactly when a fatal error occurred, and
\* then no TestResult was delivered and no per-story line was printed.
C4_FatalRunReportsNothing ==
    Exited =>
        /\ Fatal <=> exitCode = FATAL_EXIT_CODE
        /\ Fatal => (results = <<>> /\ printed = <<>> /\ footer = "none")

\* C4 witness: the remote handshake failed after stories were discovered.
C4_Witness ==
    /\ Exited /\ error = "RenderingInfoHandshakeFailed"
    /\ stories >= 1 /\ exitCode = FATAL_EXIT_CODE

\* C10 (as stated): with --local on the command line the runner that is
\* created is the local WebDriver one.
C10_LocalForcesBrowserMode ==
    (yargs.local /\ runner # "none") => runner = "EyesWebDriverRunner"

\* C5: the screenshot and the screenshot URL are never both set, and the one
\* that is set is the one the most recent check call supplied.
C5_ImageXorUrl ==
    /\ ~(_screenshot # "undefined" /\ _screenshotUrl # "undefined")
    /\ lastCheck.op = "checkImage" =>
           (_screenshot = lastCheck.image /\ _screenshotUrl = "undefined")
    /\ lastCheck.op = "checkUrl" =>
           (_screenshotUrl = lastCheck.image /\ _screenshot = "undefined")
    /\ lastCheck.op = "none" =>
           (_screenshot = "undefined" /\ _screenshotUrl = "undefined")

\* C5 witness: checkUrl was called after checkImage.
C5_Witness ==
    /\ checkImageCalls >= 1 /\ checkUrlCalls >= 1
    /\ lastCheck.op = "checkUrl" /\ _screenshotUrl = lastCheck.image

\* C6 (as stated): a session never reports a second checkpoint.
C6_AtMostOneCheckpoint == matchRequests <= 1

\* C6 (amended): every check call issues exactly one match request and no
\* other call issues any: the requests issued equal the check calls made.
C6_OneRequestPerCheck == matchRequests = checkImageCalls + checkUrlCalls

\* C6 witness: a session that was checked twice and then closed.
C6_Witness ==
    /\ checkImageCalls + checkUrlCalls = 2 /\ matchRequests = 2
    /\ closeCalls >= 1 /\ inCheck = 0

C8_DeclaredSizeReported ==
    sizeQuery.reported # "none" =>
        sizeQuery.reported =
            IF sizeQuery.declared # "undefined" THEN sizeQuery.declared
            ELSE IF sizeQuery.screenshot # "undefined"
                 THEN ImageSize(sizeQuery.screenshot)
                 ELSE "undefined"

\* C8 (amended): getViewportSize reports the image's size whenever the
\* session holds an in-memory screenshot, declared size or not, and the
\* declared size (undefined if none) only when it holds no screenshot.
C8_ScreenshotSizeReported ==
    sizeQuery.reported # "none" =>
        /\ sizeQuery.screenshot # "undefined" =>
               sizeQuery.reported = ImageSize(sizeQuery.screenshot)
        /\ sizeQuery.screenshot = "undefined" =>
               sizeQuery.reported = sizeQuery.declared

\* C8 witness: a size was declared and a differently sized image was checked.
C8_Witness ==
    /\ sizeQuery.declared \in Sizes
    /\ sizeQuery.screenshot \in Images
    /\ ImageSize(sizeQuery.screenshot) # sizeQuery.declared
    /\ sizeQuery.reported = ImageSize(sizeQuery.screenshot)

LineCount(lines, l) == Cardinality({i \in 1 .. Len(lines) : lines[i] = l})

\* C12: the result handler ends with the same exit code and prints the same
\* multiset of outcome labels for a list of results and for any reordering
\* of it.
C12_VerdictIgnoresOrder ==
    (pc = "exited" /\ reordered.done) =>
        /\ exitCode = reordered.exitCode
        /\ Len(printed) = Len(reordered.printed)
        /\ \A i \in 1 .. Len(printed) :
               LineCount(printed, printed[i]) = LineCount(reordered.printed, printed[i])

\* C12 witness: results that arrived in another order, a failed one first in
\* one order and last in the other, with a new one among them.
C12_Witness ==
    /\ pc = "exited" /\ reordered.done
    /\ Len(results) >= 2 /\ arrival # results
    /\ exitCode = EYES_TEST_FAILED_EXIT_CODE
    /\ printed[1].label = "Failed" /\ reordered.printed[1].label = "New"

====
